---- MODULE Spec2Model ----
(***************************************************************************)
(* A model of the step tracker (src/core/StepTracker.ts) and of the tool   *)
(* checker (checkToolForTracker, in its `which` and its `spawn` drafts)    *)
(* of speckit-js.                                                          *)
(*                                                                         *)
(* Step objects live in a heap and the tracker's `steps` array holds       *)
(* references to them, as in JavaScript: `[...this.steps]` copies the      *)
(* references, not the objects.                                           *)
(***************************************************************************)
EXTENDS Integers, Sequences, FiniteSets, TLC

VARIABLES
    title,            \* StepTracker.title
    steps,            \* StepTracker.steps: sequence of references into heap
    refreshCallback,  \* StepTracker.refreshCallback, NoCallback when unset
    heap,             \* the Step objects ever allocated, by reference
    returned,         \* the array handed out by the last getAllSteps()
    lastCall,         \* the last call made on the tracker, with its arguments
    cbSeen,           \* what the refresh callback saw during the last call
    outcome,          \* how the last call ended: "returned" or "threw"
    draft,            \* which draft of checkToolForTracker is linked in
    probes,           \* the checkToolForTracker calls made, oldest first
    everKeys,         \* keys ever added or auto-created on this tracker
    created,          \* <<key, label>> of each step creation since the last clear()
    nOps,             \* number of calls made so far
    check,            \* the handler of the check command: position, results, output
    cliProcess        \* the process running main(): arguments, output, exit status

vars == <<title, steps, refreshCallback, heap, returned, lastCall, cbSeen,
          outcome, draft, probes, everKeys, created, nOps, check,
          cliProcess>>

----------------------------------------------------------------------------
(* Bounds of the model *)

MaxOps == 4
MaxProbes == 2

Keys == {"git", "code"}
Labels == {"Git version control", "VS Code"}
Details == {"", "found", "checking"}
Titles == {"Check", "Tools"}
InitialTitle == "Check"

----------------------------------------------------------------------------
(* enum StepStatus *)

PENDING == "pending"
RUNNING == "running"
DONE == "done"
ERROR == "error"
SKIPPED == "skipped"
StepStatus == {PENDING, RUNNING, DONE, ERROR, SKIPPED}

(* type RefreshCallback: a callback either returns or throws when invoked; *)
(* it does not call back into the tracker.                                 *)
NoCallback == "undefined"
Callbacks == {"redraw", "redrawThrows"}
Throws(cb) == cb = "redrawThrows"

(* interface Step *)
Step(key, label, status, detail) ==
    [key |-> key, label |-> label, status |-> status, detail |-> detail]

----------------------------------------------------------------------------
(* The tracker object together with the heap its steps point into *)

This ==
    [title |-> title, steps |-> steps, refreshCallback |-> refreshCallback,
     heap |-> heap]

(* The step objects of a tracker, in array order *)
StepsOf(t) == [i \in 1..Len(t.steps) |-> t.heap[t.steps[i]]]

(* What an observer of the tracker sees at one instant *)
Observed(t) == [title |-> t.title, steps |-> StepsOf(t)]

(* constructor(title) *)
constructor(t) ==
    [title |-> t, steps |-> <<>>, refreshCallback |-> NoCallback, heap |-> <<>>]

(* this.steps.find((s) => s.key === key): position of the first match, 0 if none *)
find(t, key) ==
    LET hits == {i \in 1..Len(t.steps) : t.heap[t.steps[i]].key = key}
    IN  IF hits = {} THEN 0 ELSE CHOOSE i \in hits : \A j \in hits : i <= j

(* this.steps.push({...}): allocate the object, append its reference *)
push(t, obj) ==
    [t EXCEPT !.heap = Append(@, obj), !.steps = Append(@, Len(t.heap) + 1)]

(* this.refreshCallback(): the callback observes the tracker and returns or throws *)
invokeCallback(t) ==
    [seen |-> <<[cb |-> t.refreshCallback, view |-> Observed(t)]>>,
     threw |-> Throws(t.refreshCallback)]

maybeRefresh_NoCatch(t) ==
    IF t.refreshCallback # NoCallback
    THEN LET r == invokeCallback(t) IN [seen |-> r.seen, raised |-> r.threw]
    ELSE [seen |-> <<>>, raised |-> FALSE]

(* maybeRefresh(): try { this.refreshCallback() } catch { } *)
maybeRefresh(t) ==
    IF t.refreshCallback # NoCallback
    THEN LET r == invokeCallback(t) IN [seen |-> r.seen, raised |-> FALSE]
    ELSE [seen |-> <<>>, raised |-> FALSE]

(* The result of a method: the tracker after it, what the callback saw, and *)
(* whether an exception left the method.                                    *)
Refreshed(t) ==
    LET r == maybeRefresh(t) IN [this |-> t, seen |-> r.seen, raised |-> r.raised]
Quiet(t) == [this |-> t, seen |-> <<>>, raised |-> FALSE]

attachRefresh_KeepsFirst(t, callback) ==
    IF t.refreshCallback = NoCallback
    THEN Quiet([t EXCEPT !.refreshCallback = callback])
    ELSE Quiet(t)

(* attachRefresh(callback) *)
attachRefresh(t, callback) == Quiet([t EXCEPT !.refreshCallback = callback])

add_Relabels(t, key, label) ==
    LET i == find(t, key) IN
    IF i = 0
    THEN Refreshed(push(t, Step(key, label, PENDING, "")))
    ELSE Quiet([t EXCEPT !.heap[t.steps[i]].label = label])

add_ResetsExisting(t, key, label) ==
    LET i == find(t, key) IN
    IF i = 0
    THEN Refreshed(push(t, Step(key, label, PENDING, "")))
    ELSE Quiet([t EXCEPT !.heap[t.steps[i]].status = PENDING])

add_NoFind(t, key, label) ==
    Refreshed(push(t, Step(key, label, PENDING, "")))

add_Unshift(t, key, label) ==
    IF find(t, key) = 0
    THEN Refreshed([t EXCEPT !.heap = Append(@, Step(key, label, PENDING, "")),
                             !.steps = <<Len(t.heap) + 1>> \o @])
    ELSE Quiet(t)

(* add(key, label) *)
add(t, key, label) ==
    IF find(t, key) = 0
    THEN Refreshed(push(t, Step(key, label, PENDING, "")))
    ELSE Quiet(t)

update_AlwaysSetsDetail(t, key, status, detail) ==
    LET i == find(t, key) IN
    IF i # 0
    THEN LET ref == t.steps[i]
         IN  Refreshed([t EXCEPT !.heap[ref].status = status,
                                 !.heap[ref].detail = detail])
    ELSE Refreshed(push(t, Step(key, key, status, detail)))

update_CreatesPending(t, key, status, detail) ==
    LET i == find(t, key) IN
    IF i # 0
    THEN LET ref == t.steps[i]
             t1 == [t EXCEPT !.heap[ref].status = status]
             t2 == IF detail # "" THEN [t1 EXCEPT !.heap[ref].detail = detail] ELSE t1
         IN  Refreshed(t2)
    ELSE Refreshed(push(t, Step(key, key, PENDING, detail)))

update_MovesToEnd(t, key, status, detail) ==
    LET i == find(t, key) IN
    IF i # 0
    THEN LET ref == t.steps[i]
             t1 == [t EXCEPT !.heap[ref].status = status]
             t2 == IF detail # "" THEN [t1 EXCEPT !.heap[ref].detail = detail] ELSE t1
             rest == SelectSeq(t.steps, LAMBDA r : r # ref)
         IN  Refreshed([t2 EXCEPT !.steps = Append(rest, ref)])
    ELSE Refreshed(push(t, Step(key, key, status, detail)))

update_RefreshFirst(t, key, status, detail) ==
    LET i == find(t, key)
        r == maybeRefresh(t)
    IN
    IF i # 0
    THEN LET ref == t.steps[i]
             t1 == [t EXCEPT !.heap[ref].status = status]
             t2 == IF detail # "" THEN [t1 EXCEPT !.heap[ref].detail = detail] ELSE t1
         IN  [this |-> t2, seen |-> r.seen, raised |-> r.raised]
    ELSE [this |-> push(t, Step(key, key, status, detail)),
          seen |-> r.seen, raised |-> r.raised]

update_RefreshMidway(t, key, status, detail) ==
    LET i == find(t, key) IN
    IF i # 0
    THEN LET ref == t.steps[i]
             r == Refreshed([t EXCEPT !.heap[ref].status = status])
         IN  [r EXCEPT !.this =
                 IF detail # "" THEN [r.this EXCEPT !.heap[ref].detail = detail]
                 ELSE r.this]
    ELSE Refreshed(push(t, Step(key, key, status, detail)))

update_LabelsByDetail(t, key, status, detail) ==
    LET i == find(t, key) IN
    IF i # 0
    THEN LET ref == t.steps[i]
             t1 == [t EXCEPT !.heap[ref].status = status]
             t2 == IF detail # "" THEN [t1 EXCEPT !.heap[ref].detail = detail] ELSE t1
         IN  Refreshed(t2)
    ELSE Refreshed(push(t, Step(key, detail, status, detail)))

update_DoneIsFinal(t, key, status, detail) ==
    LET i == find(t, key) IN
    IF i # 0
    THEN LET ref == t.steps[i]
             t1 == [t EXCEPT !.heap[ref].status = status]
             t2 == IF detail # "" THEN [t1 EXCEPT !.heap[ref].detail = detail] ELSE t1
         IN  IF t.heap[ref].status = DONE THEN Quiet(t) ELSE Refreshed(t2)
    ELSE Refreshed(push(t, Step(key, key, status, detail)))

(* update(key, status, detail) *)
update(t, key, status, detail) ==
    LET i == find(t, key) IN
    IF i # 0
    THEN LET ref == t.steps[i]
             t1 == [t EXCEPT !.heap[ref].status = status]
             t2 == IF detail # "" THEN [t1 EXCEPT !.heap[ref].detail = detail] ELSE t1
         IN  Refreshed(t2)
    ELSE Refreshed(push(t, Step(key, key, status, detail)))

start(t, key, detail) == update(t, key, RUNNING, detail)
complete(t, key, detail) == update(t, key, DONE, detail)
error(t, key, detail) == update(t, key, ERROR, detail)
skip(t, key, detail) == update(t, key, SKIPPED, detail)

clear_RefreshesTwice(t) ==
    LET r == Refreshed([t EXCEPT !.steps = <<>>])
    IN  [this |-> r.this, seen |-> r.seen \o r.seen, raised |-> r.raised]

(* clear() *)
clear(t) == Refreshed([t EXCEPT !.steps = <<>>])

(* setTitle(title) *)
setTitle(t, newTitle) == Refreshed([t EXCEPT !.title = newTitle])

(* getTitle() *)
getTitle(t) == t.title

(* getAllSteps(): [...this.steps], a new array holding the same references *)
getAllSteps(t) == [i \in 1..Len(t.steps) |-> t.steps[i]]

RECURSIVE countStatuses_SkipsSkipped(_, _, _)
countStatuses_SkipsSkipped(t, i, stats) ==
    IF i > Len(t.steps) THEN stats
    ELSE LET s == t.heap[t.steps[i]].status
         IN  countStatuses_SkipsSkipped(t, i + 1,
                 IF s = SKIPPED THEN stats ELSE [stats EXCEPT ![s] = @ + 1])

(* getStatistics() *)
RECURSIVE countStatuses(_, _, _)
countStatuses(t, i, stats) ==
    IF i > Len(t.steps) THEN stats
    ELSE LET s == t.heap[t.steps[i]].status
         IN  countStatuses(t, i + 1, [stats EXCEPT ![s] = @ + 1])

getStatistics(t) ==
    countStatuses(t, 1,
        [total |-> Len(t.steps), pending |-> 0, running |-> 0, done |-> 0,
         error |-> 0, skipped |-> 0])

isAllCompleted_IgnoresRunning(t) ==
    \A i \in 1..Len(t.steps) : t.heap[t.steps[i]].status # PENDING

(* isAllCompleted() *)
isAllCompleted(t) ==
    \A i \in 1..Len(t.steps) :
        /\ t.heap[t.steps[i]].status # PENDING
        /\ t.heap[t.steps[i]].status # RUNNING

hasErrors_Every(t) == \A i \in 1..Len(t.steps) : t.heap[t.steps[i]].status = ERROR

(* hasErrors() *)
hasErrors(t) == \E i \in 1..Len(t.steps) : t.heap[t.steps[i]].status = ERROR

----------------------------------------------------------------------------
(* Strings are rendered as sequences of pieces: the escape character is   *)
(* written ESC, the box-drawing connectors U+251C U+2500 U+2500 and        *)
(* U+2514 U+2500 U+2500 are written "|--" and "L--", the filled and the    *)
(* hollow circle "@" and "o".                                              *)
RESET == "ESC[0m"
BRANCH == "|--"
TERMINATOR == "L--"

(* getStatusSymbol(status) *)
getStatusSymbol(status) ==
    CASE status = DONE -> [symbol |-> "@", color |-> "ESC[32m"]
      [] status = PENDING -> [symbol |-> "o", color |-> "ESC[90m"]
      [] status = RUNNING -> [symbol |-> "o", color |-> "ESC[36m"]
      [] status = ERROR -> [symbol |-> "@", color |-> "ESC[31m"]
      [] status = SKIPPED -> [symbol |-> "o", color |-> "ESC[33m"]
      [] OTHER -> [symbol |-> " ", color |-> ""]

(* String.prototype.trim on the details that carry white space at their   *)
(* ends; any other detail of the model has none to strip.                  *)
trim(detail) ==
    CASE detail = " found " -> "found"
      [] detail = "  " -> ""
      [] OTHER -> detail

(* line.replace(from, to): the first occurrence only *)
replace(line, from, to) ==
    LET hits == {j \in 1..Len(line) : line[j] = from}
    IN  IF hits = {} THEN line
        ELSE [line EXCEPT ![CHOOSE j \in hits : \A k \in hits : j <= k] = to]

(* The text of one step in render(), before its connector *)
renderStep(step) ==
    LET symbol == getStatusSymbol(step.status).symbol
        color == getStatusSymbol(step.status).color
        detailText == trim(step.detail)
    IN  IF step.status = PENDING
        THEN IF detailText # ""
             THEN <<color, symbol, " ", step.label, " (", detailText, ")", RESET>>
             ELSE <<color, symbol, " ", step.label, RESET>>
        ELSE IF detailText # ""
             THEN <<color, symbol, RESET, " ", "ESC[37m", step.label, RESET, " ",
                    "ESC[90m", "(", detailText, ")", RESET>>
             ELSE <<color, symbol, RESET, " ", "ESC[37m", step.label, RESET>>

render_NoTerminator(t) ==
    <<<<"ESC[36m", t.title, RESET>>>> \o
        [i \in 1..Len(t.steps) |-> <<BRANCH, " ">> \o renderStep(t.heap[t.steps[i]])]

(* render(): the lines that join("\n") puts together, in order *)
render(t) ==
    LET lines ==
            <<<<"ESC[36m", t.title, RESET>>>> \o
                [i \in 1..Len(t.steps) |->
                    <<BRANCH, " ">> \o renderStep(t.heap[t.steps[i]])]
        lastIndex == Len(lines)
    IN  IF Len(lines) > 1
        THEN [lines EXCEPT ![lastIndex] = replace(@, BRANCH, TERMINATOR)]
        ELSE lines

(* display(): console.log("\n" + this.render() + "\n") *)
display(t) == <<<<>>>> \o render(t) \o <<<<>>>>

(* Calls made on the tracker by its owner *)

Call(op, key, arg) == [op |-> op, key |-> key, arg |-> arg]

Awaiting_Never == FALSE

(* The handler that owns the tracker is suspended while the promise of its *)
(* latest checkToolForTracker call is pending. A child that could not be   *)
(* spawned emits error and close in one tick (ChildProcess onexit), so the *)
(* handler resumes only after both listeners have run.                     *)
Awaiting ==
    \/ Len(probes) > 0 /\ probes[Len(probes)].promise = "pending"
    \/ \E i \in 1..Len(probes) : probes[i].errored /\ ~probes[i].closed

Effect(r, call) ==
    /\ title' = r.this.title
    /\ steps' = r.this.steps
    /\ refreshCallback' = r.this.refreshCallback
    /\ heap' = r.this.heap
    /\ cbSeen' = r.seen
    /\ outcome' = IF r.raised THEN "threw" ELSE "returned"
    /\ lastCall' = call
    /\ UNCHANGED draft

Commit(r, call) ==
    /\ ~Awaiting
    /\ nOps < MaxOps
    /\ Effect(r, call)
    /\ nOps' = nOps + 1
    /\ UNCHANGED <<probes, check, cliProcess>>

(* Bookkeeping of the calls made: a call naming a key not seen since the   *)
(* last clear() is that key's creation, with the label the call gives it. *)
CreatedKeys == {created[i].key : i \in 1..Len(created)}

Creates(key, label) ==
    /\ everKeys' = everKeys \cup {key}
    /\ created' = IF key \in CreatedKeys THEN created
                  ELSE Append(created, [key |-> key, label |-> label])

UpdateOps == {"start", "complete", "error", "skip"}

StatusOf(op) ==
    CASE op = "start" -> RUNNING
      [] op = "complete" -> DONE
      [] op = "error" -> ERROR
      [] op = "skip" -> SKIPPED

(* No main() has been run: the tracker is used as a library *)
NotStarted ==
    [pc |-> "none", argv |-> <<>>, commands |-> {}, stdout |-> <<>>,
     stderr |-> <<>>, exitCode |-> "none"]

(* The check command's handler before it is run *)
Ready ==
    [pc |-> "ready", at |-> 0, fallback |-> FALSE, results |-> {},
     output |-> <<>>]

(* new StepTracker(t), before any call *)
Fresh(t) ==
    /\ title = constructor(t).title
    /\ steps = constructor(t).steps
    /\ refreshCallback = constructor(t).refreshCallback
    /\ heap = constructor(t).heap
    /\ returned = <<>>
    /\ probes = <<>>
    /\ lastCall = Call("new", "", "")
    /\ cbSeen = <<>>
    /\ outcome = "returned"
    /\ everKeys = {}
    /\ created = <<>>
    /\ nOps = 0
    /\ check = Ready
    /\ cliProcess = NotStarted

Init == Fresh(InitialTitle) /\ draft = "spawn"

CallAttachRefresh ==
    \E cb \in Callbacks :
        /\ Commit(attachRefresh(This, cb), Call("attachRefresh", "", cb))
        /\ UNCHANGED <<returned, everKeys, created>>

CallAdd ==
    \E key \in Keys, label \in Labels :
        /\ Commit(add(This, key, label), Call("add", key, label))
        /\ Creates(key, label)
        /\ UNCHANGED returned

CallStart ==
    \E key \in Keys, detail \in Details :
        /\ Commit(start(This, key, detail), Call("start", key, detail))
        /\ Creates(key, key)
        /\ UNCHANGED returned

CallComplete ==
    \E key \in Keys, detail \in Details :
        /\ Commit(complete(This, key, detail), Call("complete", key, detail))
        /\ Creates(key, key)
        /\ UNCHANGED returned

CallError ==
    \E key \in Keys, detail \in Details :
        /\ Commit(error(This, key, detail), Call("error", key, detail))
        /\ Creates(key, key)
        /\ UNCHANGED returned

CallSkip ==
    \E key \in Keys, detail \in Details :
        /\ Commit(skip(This, key, detail), Call("skip", key, detail))
        /\ Creates(key, key)
        /\ UNCHANGED returned

CallClear ==
    /\ Commit(clear(This), Call("clear", "", ""))
    /\ created' = <<>>
    /\ UNCHANGED <<returned, everKeys>>

CallSetTitle ==
    \E t \in Titles :
        /\ Commit(setTitle(This, t), Call("setTitle", "", t))
        /\ UNCHANGED <<returned, everKeys, created>>

Next ==
    \/ CallAttachRefresh
    \/ CallAdd
    \/ CallStart
    \/ CallComplete
    \/ CallError
    \/ CallSkip
    \/ CallClear
    \/ CallSetTitle

Spec == Init /\ [][Next]_vars

----------------------------------------------------------------------------
(* The caller of getAllSteps() and what it does with the array it got *)

CallGetAllSteps ==
    /\ Commit(Quiet(This), Call("getAllSteps", "", ""))
    /\ returned' = getAllSteps(This)
    /\ UNCHANGED <<everKeys, created>>

(* The fields of a Step and the values a caller may write to them *)
FieldValues(field) ==
    CASE field = "key" -> Keys
      [] field = "label" -> Labels
      [] field = "status" -> StepStatus
      [] field = "detail" -> Details

(* What a caller's own statement leaves alone: the tracker's fields *)
CallerStatement(call) ==
    /\ ~Awaiting
    /\ nOps < MaxOps
    /\ lastCall' = call
    /\ cbSeen' = <<>>
    /\ outcome' = "returned"
    /\ nOps' = nOps + 1
    /\ UNCHANGED <<title, steps, refreshCallback, draft, probes, everKeys,
                   created, check, cliProcess>>

(* returned.push({...}) *)
CallerPush ==
    \E key \in Keys :
        /\ CallerStatement(Call("returned.push", key, ""))
        /\ heap' = Append(heap, Step(key, key, PENDING, ""))
        /\ returned' = Append(returned, Len(heap) + 1)

(* returned.pop() *)
CallerPop ==
    /\ Len(returned) > 0
    /\ CallerStatement(Call("returned.pop", "", ""))
    /\ returned' = SubSeq(returned, 1, Len(returned) - 1)
    /\ UNCHANGED heap

(* returned[i][field] = value *)
CallerWrite ==
    \E i \in 1..Len(returned), field \in {"key", "label", "status", "detail"} :
        \E value \in FieldValues(field) :
            /\ CallerStatement(Call("returned[i]." \o field, "", value))
            /\ heap' = [heap EXCEPT ![returned[i]][field] = value]
            /\ UNCHANGED returned

CallerOps ==
    {"returned.push", "returned.pop", "returned[i].key", "returned[i].label",
     "returned[i].status", "returned[i].detail"}

NextCaller ==
    \/ CallAdd
    \/ CallComplete
    \/ CallClear
    \/ CallGetAllSteps
    \/ CallerPush
    \/ CallerPop
    \/ CallerWrite

SpecCaller == Init /\ [][NextCaller]_vars

(* What the tracker reports through its read-only methods *)
Reports(t) ==
    [getAllSteps |-> [i \in 1..Len(t.steps) |-> t.heap[getAllSteps(t)[i]]],
     getStatistics |-> getStatistics(t),
     isAllCompleted |-> isAllCompleted(t),
     hasErrors |-> hasErrors(t),
     getTitle |-> getTitle(t)]

----------------------------------------------------------------------------
(* checkToolForTracker(tool, installHint, tracker), in its two drafts:      *)
(* "which" awaits which(toolName) after tracker.start(toolName, "checking");*)
(* "spawn" spawns `which tool` and acts on the child's close and error      *)
(* events.                                                                 *)

Drafts == {"which", "spawn"}
Hints == {"https://git-scm.com/downloads", "install-me"}

(* Exit codes of the child: found, not found, and the negative errno with  *)
(* which a child that could not be spawned is closed.                      *)
ExitCodes == {0, 1, -2}

NotFound(installHint) == "not found - " \o installHint

(* resolve(value) on a promise: the first resolution wins *)
resolve(promise, value) == IF promise = "pending" THEN value ELSE promise

Probe(tool, installHint) ==
    [tool |-> tool, hint |-> installHint, promise |-> "pending",
     errored |-> FALSE, closed |-> FALSE]

(* The result of a tracker call followed by resolve(value) or return value: *)
(* the value is delivered only if the tracker call returned.               *)
Then(r, value) ==
    [this |-> r.this, seen |-> r.seen, raised |-> r.raised, value |-> value]

(* The "which" draft up to its await: tracker.start(toolName, "checking") *)
checkToolForTrackerWhich(t, tool, installHint) ==
    Then(start(t, tool, "checking"), "pending")

(* The "spawn" draft up to the return of its promise: it spawns the child  *)
(* and registers the two handlers, and does not touch the tracker.         *)
checkToolForTrackerSpawn(t, tool, installHint) == Then(Quiet(t), "pending")

(* The part of checkToolForTracker that runs before the lookup completes *)
checkToolForTracker(t, tool, installHint) ==
    IF draft = "which"
    THEN checkToolForTrackerWhich(t, tool, installHint)
    ELSE checkToolForTrackerSpawn(t, tool, installHint)

onClose_NonPositiveIsFound(t, tool, installHint, code) ==
    IF code <= 0
    THEN Then(complete(t, tool, "available"), "true")
    ELSE Then(error(t, tool, NotFound(installHint)), "false")

onClose_NoHint(t, tool, installHint, code) ==
    IF code = 0
    THEN Then(complete(t, tool, "available"), "true")
    ELSE Then(error(t, tool, "not found"), "false")

(* child.on("close", (code) => ...) *)
onClose(t, tool, installHint, code) ==
    IF code = 0
    THEN Then(complete(t, tool, "available"), "true")
    ELSE Then(error(t, tool, NotFound(installHint)), "false")

(* child.on("error", () => ...) *)
onError(t, tool, installHint) ==
    Then(error(t, tool, NotFound(installHint)), "false")

onWhichMissing_Rethrows(t, tool, installHint) ==
    [Then(error(t, tool, NotFound(installHint)), "false") EXCEPT !.raised = TRUE]

(* await which(toolName) threw, or the try block did: the catch block *)
onWhichMissing(t, tool, installHint) ==
    Then(error(t, tool, NotFound(installHint)), "false")

(* await which(toolName) returned: the rest of the try block, and the      *)
(* catch block if tracker.complete threw                                   *)
onWhichFound(t, tool, installHint) ==
    LET completed == complete(t, tool, "found")
        caught == onWhichMissing(completed.this, tool, installHint)
    IN  IF ~completed.raised THEN Then(completed, "true")
        ELSE [caught EXCEPT !.seen = completed.seen \o caught.seen]

(* An async function that throws rejects its promise *)
returnFromAsync(r) == IF r.raised THEN "rejected" ELSE r.value

(* A listener that throws before its resolve(value) leaves the promise as  *)
(* it was.                                                                 *)
resolveFromListener(promise, r) ==
    IF r.raised THEN promise ELSE resolve(promise, r.value)

(* When the events of probe i can come: which(toolName) settles once; the  *)
(* child closes once, and emits error only before it closes and only once *)
WhichSettles(i) == draft = "which" /\ probes[i].promise = "pending"
ChildCloses(i) == draft = "spawn" /\ ~probes[i].closed
ChildErrors(i) == draft = "spawn" /\ ~probes[i].closed /\ ~probes[i].errored

CallCheckToolForTracker ==
    \E tool \in Keys, installHint \in Hints :
        LET r == checkToolForTracker(This, tool, installHint)
        IN  /\ ~Awaiting
            /\ nOps < MaxOps
            /\ Len(probes) < MaxProbes
            /\ Effect(r, Call("checkToolForTracker", tool, installHint))
            /\ probes' = Append(probes,
                                [Probe(tool, installHint) EXCEPT
                                    !.promise = returnFromAsync(r)])
            /\ nOps' = nOps + 1
            /\ IF draft = "which" THEN Creates(tool, tool)
                                  ELSE UNCHANGED <<everKeys, created>>
            /\ UNCHANGED <<returned, check, cliProcess>>

WhichFound ==
    \E i \in 1..Len(probes) :
        LET r == onWhichFound(This, probes[i].tool, probes[i].hint)
        IN  /\ WhichSettles(i)
            /\ Effect(r, Call("which.found", probes[i].tool, probes[i].hint))
            /\ probes' = [probes EXCEPT ![i].promise = returnFromAsync(r)]
            /\ Creates(probes[i].tool, probes[i].tool)
            /\ UNCHANGED <<returned, nOps, check, cliProcess>>

WhichMissing ==
    \E i \in 1..Len(probes) :
        LET r == onWhichMissing(This, probes[i].tool, probes[i].hint)
        IN  /\ WhichSettles(i)
            /\ Effect(r, Call("which.missing", probes[i].tool, probes[i].hint))
            /\ probes' = [probes EXCEPT ![i].promise = returnFromAsync(r)]
            /\ Creates(probes[i].tool, probes[i].tool)
            /\ UNCHANGED <<returned, nOps, check, cliProcess>>

(* The child's close event: a child that could not be spawned has emitted  *)
(* error and closes with a negative code, any other child closes with the  *)
(* exit code of the lookup.                                                *)
ChildClose ==
    \E i \in 1..Len(probes), code \in ExitCodes :
        LET r == onClose(This, probes[i].tool, probes[i].hint, code)
        IN  /\ ChildCloses(i)
            /\ probes[i].errored <=> code < 0
            /\ Effect(r, Call("child.close", probes[i].tool, ToString(code)))
            /\ probes' = [probes EXCEPT
                            ![i].closed = TRUE,
                            ![i].promise = resolveFromListener(@, r)]
            /\ Creates(probes[i].tool, probes[i].tool)
            /\ UNCHANGED <<returned, nOps, check, cliProcess>>

(* The child's error event *)
ChildError ==
    \E i \in 1..Len(probes) :
        LET r == onError(This, probes[i].tool, probes[i].hint)
        IN  /\ ChildErrors(i)
            /\ Effect(r, Call("child.error", probes[i].tool, probes[i].hint))
            /\ probes' = [probes EXCEPT
                            ![i].errored = TRUE,
                            ![i].promise = resolveFromListener(@, r)]
            /\ Creates(probes[i].tool, probes[i].tool)
            /\ UNCHANGED <<returned, nOps, check, cliProcess>>

NextCheckTool ==
    \/ CallAttachRefresh
    \/ CallAdd
    \/ CallCheckToolForTracker
    \/ WhichFound
    \/ WhichMissing
    \/ ChildClose
    \/ ChildError

InitCheckTool == Fresh(InitialTitle) /\ draft \in Drafts

SpecCheckTool == InitCheckTool /\ [][NextCheckTool]_vars

(* The events that end a lookup, and those that report the tool as found *)
LookupEvents == {"which.found", "which.missing", "child.close", "child.error"}

LookupSucceeded(call) ==
    \/ call.op = "which.found"
    \/ call.op = "child.close" /\ call.arg = ToString(0)

(* The lookup of probe i has not completed yet *)
InLookup(i) ==
    IF draft = "which" THEN probes[i].promise = "pending"
    ELSE ~probes[i].closed /\ ~probes[i].errored

----------------------------------------------------------------------------
(* The check command: its handler adds every configured tool to a new      *)
(* tracker, probes the tools in turn, awaiting each probe, and prints the  *)
(* tree and a summary.                                                     *)

toolConfigs ==
    << [name |-> "git", description |-> "Git version control",
        url |-> "https://git-scm.com/downloads"],
       [name |-> "claude", description |-> "Claude Code CLI",
        url |-> "https://docs.anthropic.com/en/docs/claude-code/setup"],
       [name |-> "gemini", description |-> "Gemini CLI",
        url |-> "https://github.com/google-gemini/gemini-cli"],
       [name |-> "qwen", description |-> "Qwen Code CLI",
        url |-> "https://github.com/QwenLM/qwen-code"],
       [name |-> "code", description |-> "VS Code (for GitHub Copilot)",
        url |-> "https://code.visualstudio.com/"],
       [name |-> "cursor-agent", description |-> "Cursor IDE agent (optional)",
        url |-> "https://cursor.sh/"],
       [name |-> "windsurf", description |-> "Windsurf IDE (optional)",
        url |-> "https://windsurf.com/"],
       [name |-> "opencode", description |-> "opencode",
        url |-> "https://opencode.ai/"],
       [name |-> "codex", description |-> "Codex CLI",
        url |-> "https://github.com/openai/codex"] >>

InsidersUrl == "https://code.visualstudio.com/insiders/"

(* The title of the check command's tracker, in English *)
CheckTitle == "Check installed tools"

aiTools ==
    {"claude", "gemini", "cursor-agent", "qwen", "windsurf", "opencode", "codex"}

(* toolConfigs.forEach((tool) => tracker.add(tool.name, tool.description)) *)
RECURSIVE addAll(_, _)
addAll(t, i) ==
    IF i > Len(toolConfigs) THEN Quiet(t)
    ELSE LET added == add(t, toolConfigs[i].name, toolConfigs[i].description)
             rest == addAll(added.this, i + 1)
         IN  IF added.raised THEN added
             ELSE [rest EXCEPT !.seen = added.seen \o @]

needsFallback_Always(name, fallback, codeOk) == name = "code" /\ ~fallback

(* if (tool.name === "code") { ...; if (!codeOk) { second probe } } *)
needsFallback(name, fallback, codeOk) ==
    name = "code" /\ ~fallback /\ codeOk = "false"

(* results[name] = value *)
Assign(results, name, value) ==
    {p \in results : p[1] # name} \cup {<<name, value>>}

Summary_NoDisplay(t, results) ==
    LET stats == getStatistics(t)
    IN  <<<<>>, [done |-> stats.done, error |-> stats.error], "ready">>

(* The lines printed once the loop is over *)
Summary(t, results) ==
    LET stats == getStatistics(t)
        hasAnyAI == \E tool \in aiTools : <<tool, "true">> \in results
    IN  <<display(t), [done |-> stats.done, error |-> stats.error], "ready">>
        \o (IF <<"git", "true">> \in results THEN <<>> ELSE <<"hint: git">>)
        \o (IF hasAnyAI THEN <<>> ELSE <<"hint: AI assistant">>)

(* await checkToolForTracker(tool, hint, tracker), up to the await *)
Issue(tool, hint, c) ==
    LET r == checkToolForTracker(This, tool, hint)
    IN  /\ Effect(r, Call("checkToolForTracker", tool, hint))
        /\ probes' = Append(probes,
                            [Probe(tool, hint) EXCEPT !.promise = returnFromAsync(r)])
        /\ check' = c
        /\ IF draft = "which" THEN Creates(tool, tool)
                              ELSE UNCHANGED <<everKeys, created>>

(* When the handler can run: at its start, and after an await once the    *)
(* awaited promise has settled                                             *)
CheckStarts == check.pc = "ready"
CheckResumes == check.pc = "awaiting" /\ ~Awaiting

(* The handler from its start to its first await *)
CheckAction ==
    LET added == addAll(constructor(CheckTitle), 1)
        first == toolConfigs[1]
        r == checkToolForTracker(added.this, first.name, first.url)
    IN  /\ CheckStarts
        /\ Effect([r EXCEPT !.seen = added.seen \o @],
                  Call("checkToolForTracker", first.name, first.url))
        /\ probes' = <<[Probe(first.name, first.url) EXCEPT
                           !.promise = returnFromAsync(r)]>>
        /\ check' = [check EXCEPT !.pc = "awaiting", !.at = 1,
                                  !.output = <<"banner">>]
        /\ everKeys' = {toolConfigs[i].name : i \in 1..Len(toolConfigs)}
        /\ created' = [i \in 1..Len(toolConfigs) |->
                          [key |-> toolConfigs[i].name,
                           label |-> toolConfigs[i].description]]
        /\ UNCHANGED <<returned, nOps, cliProcess>>

(* The handler from the return of an await to its next await or its end *)
CheckResume ==
    LET value == probes[Len(probes)].promise
        tool == toolConfigs[check.at]
        results == Assign(check.results, tool.name, value)
    IN  /\ CheckResumes
        /\ IF value = "rejected"
           THEN /\ Effect([Quiet(This) EXCEPT !.raised = TRUE],
                          Call("check.rejected", "", ""))
                /\ check' = [check EXCEPT !.pc = "failed"]
                /\ UNCHANGED <<probes, everKeys, created>>
           ELSE IF needsFallback(tool.name, check.fallback, value)
           THEN Issue("code-insiders", InsidersUrl,
                      [check EXCEPT !.fallback = TRUE])
           ELSE IF check.at < Len(toolConfigs)
           THEN Issue(toolConfigs[check.at + 1].name,
                      toolConfigs[check.at + 1].url,
                      [check EXCEPT !.at = @ + 1, !.fallback = FALSE,
                                    !.results = results])
           ELSE /\ Effect(Quiet(This), Call("check.done", "", ""))
                /\ check' = [check EXCEPT
                                !.pc = "done", !.results = results,
                                !.output = @ \o Summary(This, results)]
                /\ UNCHANGED <<probes, everKeys, created>>
        /\ UNCHANGED <<returned, nOps, cliProcess>>

NextCheck ==
    \/ CheckAction
    \/ CheckResume
    \/ WhichFound
    \/ WhichMissing
    \/ ChildClose
    \/ ChildError

InitCheck == Fresh(CheckTitle) /\ draft \in Drafts

SpecCheck == InitCheck /\ [][NextCheck]_vars

(* The handler has printed the tree of its tracker and the summary line *)
Displayed ==
    /\ check.pc = "done"
    /\ Len(check.output) >= 3
    /\ check.output[2] = display(This)
    /\ check.output[3] =
         [done |-> getStatistics(This).done, error |-> getStatistics(This).error]

(* What is left of a run of the handler, counted in steps: four for each  *)
(* probe not yet issued (issue, error, close, resume) and those of the     *)
(* latest probe that are still to come                                     *)
StepsLeft ==
    IF check.pc \in {"done", "failed"} THEN 0
    ELSE 4 * (Len(toolConfigs) + 1 - Len(probes))
         + (IF check.pc = "ready" THEN 4
            ELSE IF InLookup(Len(probes)) THEN 3
            ELSE IF Awaiting THEN 2
            ELSE 1)

(* Probe i is in flight: its promise is pending or its child is still open *)
InFlight(i) ==
    \/ probes[i].promise = "pending"
    \/ draft = "spawn" /\ ~probes[i].closed

----------------------------------------------------------------------------
(* The read-only methods, called between the calls that change the tracker *)

ReadOps == {"render", "getStatistics", "isAllCompleted", "hasErrors", "getTitle"}

(* What a read-only method returns; none assigns a field or calls          *)
(* maybeRefresh()                                                          *)
Read(t, op) ==
    CASE op = "render" -> Then(Quiet(t), render(t))
      [] op = "getStatistics" -> Then(Quiet(t), getStatistics(t))
      [] op = "isAllCompleted" -> Then(Quiet(t), isAllCompleted(t))
      [] op = "hasErrors" -> Then(Quiet(t), hasErrors(t))
      [] op = "getTitle" -> Then(Quiet(t), getTitle(t))

CallRead ==
    \E op \in ReadOps :
        /\ Commit(Read(This, op), Call(op, "", ""))
        /\ UNCHANGED <<returned, everKeys, created>>

NextReads ==
    \/ Next
    \/ CallGetAllSteps
    \/ CallRead

SpecReads == Init /\ [][NextReads]_vars

----------------------------------------------------------------------------
(* main() of the CLI: it configures the program and gives the init command *)
(* its action; the check command is registered, and program.parse() is     *)
(* called, inside that action.                                             *)

(* Command lines: the command, the optional project name ("" when absent)  *)
(* and the flags of init                                                   *)
ProjectNames == {"", "demo"}
Assistants == {"", "claude"}

Argv ==
    [command : {"init"}, projectName : ProjectNames, here : BOOLEAN,
     ai : Assistants, ignoreAgentTools : BOOLEAN, noGit : BOOLEAN,
     debug : BOOLEAN]
    \cup
    [command : {"check"}, projectName : {""}, here : {FALSE}, ai : {""},
     ignoreAgentTools : {FALSE}, noGit : {FALSE}, debug : {FALSE}]

(* What a run of a handler or of main() leaves behind; the exit status is  *)
(* "none" while the process has not exited                                 *)
Ran(commands, stdout, stderr, exitCode) ==
    [commands |-> commands, stdout |-> stdout, stderr |-> stderr,
     exitCode |-> exitCode]

(* The action of init: .action((projectName, options) => { ... }), up to   *)
(* the registration of check and its own program.parse()                   *)
initAction(projectName, options, commands) ==
    LET config == [projectName |-> projectName, here |-> options.here]
        stdout == <<"initialising", "banner">>
    IN  IF config.here /\ config.projectName # ""
        THEN Ran(commands, stdout, <<"Error: both project name and --here">>, "1")
        ELSE IF ~config.here /\ config.projectName = ""
        THEN Ran(commands, stdout, <<"Error: neither project name nor --here">>,
                 "1")
        ELSE Ran(commands \cup {"check"}, stdout \o <<"parse">>, <<>>, "none")

(* program.parse(): run the action of the command named on the command     *)
(* line, if that command is registered                                     *)
parse(argv, commands) ==
    IF argv.command = "init" /\ "init" \in commands
    THEN initAction(argv.projectName, argv, commands)
    ELSE IF argv.command \in commands
    THEN Ran(commands, <<argv.command>>, <<>>, "none")
    ELSE Ran(commands, <<>>, <<"error: unknown command">>, "1")

(* Whether main() itself calls program.parse(): its only call stands       *)
(* inside the action of init                                               *)
parseInMain == FALSE

(* main() *)
main(argv) ==
    IF parseInMain THEN parse(argv, {"init"})
    ELSE Ran({"init"}, <<>>, <<>>, "none")

Started(argv) ==
    [pc |-> "start", argv |-> argv, commands |-> {}, stdout |-> <<>>,
     stderr |-> <<>>, exitCode |-> "none"]

LibraryVars ==
    <<title, steps, refreshCallback, heap, returned, lastCall, cbSeen,
      outcome, draft, probes, everKeys, created, nOps, check>>

(* node runs the module: main() is called and returns its promise *)
Main ==
    LET ran == main(cliProcess.argv)
    IN  /\ cliProcess.pc = "start"
        /\ cliProcess' =
             [cliProcess EXCEPT
                !.pc = IF ran.exitCode = "none" THEN "returned" ELSE "exited",
                !.commands = ran.commands,
                !.stdout = ran.stdout,
                !.stderr = ran.stderr,
                !.exitCode = ran.exitCode]
        /\ UNCHANGED LibraryVars

(* Nothing is left to run: the process ends with status 0 *)
ProcessEnd ==
    /\ cliProcess.pc = "returned"
    /\ cliProcess' = [cliProcess EXCEPT !.pc = "exited", !.exitCode = "0"]
    /\ UNCHANGED LibraryVars

NextCli == Main \/ ProcessEnd

InitCli ==
    /\ \E argv \in Argv : cliProcess = Started(argv)
    /\ title = constructor(InitialTitle).title
    /\ steps = constructor(InitialTitle).steps
    /\ refreshCallback = constructor(InitialTitle).refreshCallback
    /\ heap = constructor(InitialTitle).heap
    /\ returned = <<>>
    /\ probes = <<>>
    /\ lastCall = Call("new", "", "")
    /\ cbSeen = <<>>
    /\ outcome = "returned"
    /\ everKeys = {}
    /\ created = <<>>
    /\ nOps = 0
    /\ check = Ready
    /\ draft = "spawn"

SpecCli == InitCli /\ [][NextCli]_vars

(* init is given both a project name and --here, or neither *)
InvalidInit(argv) ==
    /\ argv.command = "init"
    /\ argv.here <=> argv.projectName # ""

(* Trackers to render: up to two steps in any order, each as add() or an   *)
(* update left it, with details that carry white space among them.         *)
RenderDetails == Details \cup {" found ", "  "}
RenderLabel(key) == IF key = "git" THEN "Git version control" ELSE "VS Code"
RenderOrders == {<<>>, <<"git">>, <<"code">>, <<"git", "code">>, <<"code", "git">>}

InitRender ==
    \E order \in RenderOrders, t \in Titles :
        \E status \in [1..Len(order) -> StepStatus],
           detail \in [1..Len(order) -> RenderDetails] :
            /\ \A i \in 1..Len(order) : status[i] = PENDING => detail[i] = ""
            /\ title = t
            /\ heap = [i \in 1..Len(order) |->
                          Step(order[i], RenderLabel(order[i]), status[i], detail[i])]
            /\ steps = [i \in 1..Len(order) |-> i]
            /\ refreshCallback = NoCallback
            /\ returned = <<>>
            /\ probes = <<>>
            /\ lastCall = Call("new", "", "")
            /\ cbSeen = <<>>
            /\ outcome = "returned"
            /\ everKeys = {order[i] : i \in 1..Len(order)}
            /\ created = [i \in 1..Len(order) |->
                             [key |-> order[i], label |-> RenderLabel(order[i])]]
            /\ nOps = 0
            /\ check = Ready
            /\ cliProcess = NotStarted
            /\ draft = "spawn"

NextRender == CallAdd \/ CallClear \/ CallSetTitle

SpecRender == InitRender /\ [][NextRender]_vars

(* The calls that start from a fresh tracker and only ever add *)
NextAdd == CallAdd

InitAdd == (\E t \in Titles : Fresh(t)) /\ draft = "spawn"

SpecAdd == InitAdd /\ [][NextAdd]_vars

----------------------------------------------------------------------------
(* The call just made, replayed on a tracker value *)

Apply(call, t) ==
    CASE call.op = "add" -> add(t, call.key, call.arg)
      [] call.op = "start" -> start(t, call.key, call.arg)
      [] call.op = "complete" -> complete(t, call.key, call.arg)
      [] call.op = "error" -> error(t, call.key, call.arg)
      [] call.op = "skip" -> skip(t, call.key, call.arg)
      [] call.op = "clear" -> clear(t)
      [] call.op = "setTitle" -> setTitle(t, call.arg)
      [] call.op = "attachRefresh" -> attachRefresh(t, call.arg)

KeysOf(t) == [i \in 1..Len(t.steps) |-> t.heap[t.steps[i]].key]

MutatingOps == UpdateOps \cup {"add", "clear", "setTitle"}

----------------------------------------------------------------------------
(* Properties *)

(* C1: after any sequence of add(key, label) calls on a fresh tracker the  *)
(* steps are the distinct keys in first-occurrence order, each with the    *)
(* label of its first add, status pending and empty detail; an add of a    *)
(* key already present leaves the whole step sequence unchanged.           *)
C1_StepsAreFirstOccurrences ==
    StepsOf(This) =
        [i \in 1..Len(created) |->
            Step(created[i].key, created[i].label, PENDING, "")]

C1_AddIdempotent ==
    (lastCall'.op = "add" /\ find(This, lastCall'.key) # 0)
        => StepsOf(This') = StepsOf(This)

C1_AddFirstOccurrenceOrder ==
    [](C1_StepsAreFirstOccurrences) /\ [][C1_AddIdempotent]_vars

C1_Witness ==
    /\ lastCall.op = "add"
    /\ nOps = 3
    /\ Len(steps) = 2
    /\ heap[steps[1]].label # heap[steps[2]].label

(* C2: start/complete/error/skip on an existing step with an empty detail  *)
(* keeps the stored detail, with a non-empty detail stores exactly that    *)
(* detail, and in both cases sets the status of the operation.             *)
C2_UpdateExisting ==
    (lastCall'.op \in UpdateOps /\ find(This, lastCall'.key) # 0) =>
        LET i == find(This, lastCall'.key)
            before == StepsOf(This)[i]
            after == StepsOf(This')[i]
        IN  /\ after.status = StatusOf(lastCall'.op)
            /\ after.detail =
                 IF lastCall'.arg = "" THEN before.detail ELSE lastCall'.arg

C2_EmptyDetailPreserves == [][C2_UpdateExisting]_vars

C2_Witness ==
    /\ lastCall.op \in UpdateOps
    /\ lastCall.arg = ""
    /\ find(This, lastCall.key) # 0
    /\ StepsOf(This)[find(This, lastCall.key)].detail = "found"
    /\ nOps >= 2

(* C3: start/complete/error/skip on a key that is not present appends      *)
(* exactly one step with key = label = the given key, the status of the    *)
(* operation and the given detail; the existing steps are unchanged.       *)
C3_UpdateMissing ==
    (lastCall'.op \in UpdateOps /\ find(This, lastCall'.key) = 0) =>
        StepsOf(This') =
            Append(StepsOf(This),
                   Step(lastCall'.key, lastCall'.key, StatusOf(lastCall'.op),
                        lastCall'.arg))

C3_AutoCreate == [][C3_UpdateMissing]_vars

C3_Witness ==
    /\ nOps = 1
    /\ lastCall = Call("complete", "git", "found")
    /\ StepsOf(This) = <<Step("git", "git", DONE, "found")>>

(* C4 as stated: getStatistics().total equals the number of distinct keys  *)
(* ever added or auto-created on the tracker.                              *)
C4_TotalIsEverKeys == getStatistics(This).total = Cardinality(everKeys)

(* C4 as amended: getStatistics().total equals the number of distinct keys *)
(* added or auto-created since the tracker was constructed or last cleared.*)
C4_TotalIsKeysSinceClear ==
    getStatistics(This).total = Cardinality(CreatedKeys)

C4_Witness ==
    /\ getStatistics(This).total = 1
    /\ Cardinality(everKeys) = 2
    /\ lastCall.op # "clear"

(* C5: getStatistics() has a count for each of the five statuses, each the *)
(* number of steps now holding that status, total is the length of the     *)
(* step sequence, and the five counts sum to total.                        *)
C5_StatisticsCount ==
    LET stats == getStatistics(This)
        holding(s) == Cardinality({i \in 1..Len(steps) : heap[steps[i]].status = s})
    IN  /\ DOMAIN stats = {"total"} \cup StepStatus
        /\ \A s \in StepStatus : stats[s] = holding(s)
        /\ stats.total = Len(steps)
        /\ stats.pending + stats.running + stats.done + stats.error
             + stats.skipped = stats.total

C5_Witness ==
    getStatistics(This) =
        [total |-> 2, pending |-> 0, running |-> 0, done |-> 1, error |-> 0,
         skipped |-> 1]

(* C6: no two steps of a tracker share a key, the steps stand in the order *)
(* in which their keys were added or auto-created, and start/complete/     *)
(* error/skip on an existing key changes neither the length of the         *)
(* sequence nor the position of any step.                                  *)
C6_UniqueInCreationOrder ==
    /\ \A i, j \in 1..Len(steps) :
          heap[steps[i]].key = heap[steps[j]].key => i = j
    /\ KeysOf(This) = [i \in 1..Len(created) |-> created[i].key]

C6_UpdateKeepsPositions ==
    (lastCall'.op \in UpdateOps /\ find(This, lastCall'.key) # 0)
        => KeysOf(This') = KeysOf(This)

C7_ThrowingCallbackStep ==
    (lastCall'.op \in MutatingOps /\ Throws(refreshCallback)) =>
        /\ outcome' = "returned"
        /\ Observed(This') =
             Observed(Apply(lastCall', [This EXCEPT !.refreshCallback = NoCallback]).this)

C7_ThrowingCallbackHarmless == [][C7_ThrowingCallbackStep]_vars

C7_Witness ==
    /\ Throws(refreshCallback)
    /\ lastCall.op = "clear"
    /\ Len(cbSeen) = 1
    /\ cbSeen[1].cb = refreshCallback
    /\ outcome = "returned"

(* C8: with a refresh callback attached, add of a new key, start, complete,*)
(* error, skip, clear and setTitle invoke the callback during the call,    *)
(* after the mutation: what the callback sees is the tracker as the call   *)
(* leaves it.                                                              *)
C8_RefreshAfterMutation ==
    (/\ refreshCallback # NoCallback
     /\ \/ lastCall'.op \in UpdateOps \cup {"clear", "setTitle"}
        \/ lastCall'.op = "add" /\ find(This, lastCall'.key) = 0) =>
        /\ Len(cbSeen') >= 1
        /\ cbSeen'[Len(cbSeen')].cb = refreshCallback
        /\ cbSeen'[Len(cbSeen')].view = Observed(This')

C8_CallbackSynchronous == [][C8_RefreshAfterMutation]_vars

C8_Witness ==
    /\ refreshCallback # NoCallback
    /\ lastCall.op = "start"
    /\ Len(steps) = 2
    /\ Len(cbSeen) = 1
    /\ cbSeen[1].view.steps[2].status = RUNNING

(* C9: nothing a caller does through the array getAllSteps() returned      *)
(* (adding or removing elements, writing the key, label, status or detail  *)
(* of a returned step) changes what the tracker reports afterwards.        *)
C9_CallerCannotReach ==
    lastCall'.op \in CallerOps => Reports(This') = Reports(This)

C9_DefensiveCopy == [][C9_CallerCannotReach]_vars

(* C10: from the call of checkToolForTracker until its lookup completes,   *)
(* the tracker has a step for the tool, with status running and detail     *)
(* "checking".                                                             *)
C10_RunningDuringLookup ==
    \A i \in 1..Len(probes) :
        InLookup(i) =>
            LET at == find(This, probes[i].tool)
            IN  /\ at # 0
                /\ StepsOf(This)[at].status = RUNNING
                /\ StepsOf(This)[at].detail = "checking"

(* C11: when the lookup of a tool succeeds, checkToolForTracker sets the    *)
(* tool's step to done and resolves true; when it fails (tool not found,   *)
(* or the lookup itself errors) it sets the step to error with detail      *)
(* exactly "not found - " followed by the install hint and resolves false, *)
(* whether or not the step existed before and whatever detail it held.     *)
C11_LookupSettles ==
    \A i \in 1..Len(probes) :
        (probes[i].promise = "pending" /\ probes'[i].promise # "pending") =>
            LET at == find(This', probes[i].tool)
                step == StepsOf(This')[at]
            IN  /\ lastCall'.op \in LookupEvents
                /\ lastCall'.key = probes[i].tool
                /\ at # 0
                /\ IF LookupSucceeded(lastCall')
                   THEN /\ step.status = DONE
                        /\ probes'[i].promise = "true"
                   ELSE /\ step.status = ERROR
                        /\ step.detail = NotFound(probes[i].hint)
                        /\ probes'[i].promise = "false"

C11_OutcomeReported == [][C11_LookupSettles]_vars

C11_Witness ==
    /\ draft = "spawn"
    /\ lastCall.op = "child.close"
    /\ Len(probes) = 2
    /\ probes[1].promise = "true"
    /\ probes[2].promise = "false"
    /\ probes[2].tool = probes[1].tool
    /\ StepsOf(This)[find(This, probes[2].tool)] =
         Step(probes[2].tool, "Git version control", ERROR,
              "not found - install-me")

C17_RenderLines ==
    LET out == render(This)
        n == Len(steps)
    IN  /\ Len(out) = 1 + n
        /\ out[1] = <<"ESC[36m", title, RESET>>
        /\ \A i \in 1..n :
              /\ \E j \in 1..Len(out[i + 1]) : out[i + 1][j] = heap[steps[i]].label
              /\ out[i + 1][1] = IF i = n THEN TERMINATOR ELSE BRANCH
              /\ \A j \in 2..Len(out[i + 1]) :
                    out[i + 1][j] \notin {BRANCH, TERMINATOR}
        /\ BRANCH # TERMINATOR

C17_Witness ==
    /\ Len(steps) = 2
    /\ heap[steps[1]].detail = " found "
    /\ heap[steps[2]].detail = "  "
    /\ render(This)[2][1] = BRANCH
    /\ render(This)[3] =
         <<TERMINATOR, " ", "ESC[31m", "@", RESET, " ", "ESC[37m",
           heap[steps[2]].label, RESET>>
    /\ lastCall.op = "setTitle"

(* C13: the check command issues its probes one at a time in the order of *)
(* the tool list: a probe is started only when every earlier probe has     *)
(* resolved, two probes are never in flight together, and the tracker      *)
(* calls of different probes do not interleave (a lookup event always      *)
(* belongs to the latest probe).                                           *)
C13_OneInFlight ==
    /\ Cardinality({i \in 1..Len(probes) : InFlight(i)}) <= 1
    /\ LET listed == SelectSeq(probes, LAMBDA p : p.tool # "code-insiders")
       IN  \A i \in 1..Len(listed) : listed[i].tool = toolConfigs[i].name

C13_ProbeAfterProbe ==
    /\ Len(probes') > Len(probes) =>
          /\ Len(probes') = Len(probes) + 1
          /\ \A i \in 1..Len(probes) :
                ~InFlight(i) /\ probes[i].promise \in {"true", "false"}
    /\ lastCall'.op \in LookupEvents =>
          /\ lastCall'.key = probes[Len(probes)].tool
          /\ \A i \in 1..(Len(probes) - 1) : probes'[i] = probes[i]

C13_ProbesSequential == [](C13_OneInFlight) /\ [][C13_ProbeAfterProbe]_vars

C13_Witness ==
    /\ draft = "spawn"
    /\ check.pc = "awaiting"
    /\ Len(probes) = 3
    /\ probes[1].errored /\ probes[1].closed
    /\ probes[2].promise = "true"
    /\ InFlight(3)

(* C14: the check command probes code-insiders if and only if the probe of *)
(* code returned false, and then as the very next probe; no other probe    *)
(* answers a failure, so no tool name is probed twice in a run.            *)
C14_FallbackOnlyForCode ==
    /\ \A i, j \in 1..Len(probes) : probes[i].tool = probes[j].tool => i = j
    /\ \A i \in 1..Len(probes) :
          /\ probes[i].tool = "code-insiders" =>
                /\ i > 1
                /\ probes[i - 1].tool = "code"
                /\ probes[i - 1].promise = "false"
          /\ (probes[i].tool = "code" /\ probes[i].promise = "false"
                /\ (i < Len(probes) \/ check.pc = "done")) =>
                /\ i < Len(probes)
                /\ probes[i + 1].tool = "code-insiders"
          /\ (probes[i].promise = "false" /\ probes[i].tool # "code"
                /\ i < Len(probes)) =>
                /\ probes[i + 1].tool # probes[i].tool
                /\ probes[i + 1].tool # "code-insiders"
    /\ Len(probes) <= Len(toolConfigs) + 1

C14_Witness ==
    /\ check.pc = "done"
    /\ Len(probes) = 10
    /\ probes[5].tool = "code" /\ probes[5].promise = "false"
    /\ probes[6].tool = "code-insiders" /\ probes[6].promise = "true"
    /\ probes[1].promise = "false"

(* C15: isAllCompleted() is false exactly when some step is pending or    *)
(* running, and so is true on a tracker with no steps, fresh or cleared.   *)
C15_AllCompleted ==
    /\ isAllCompleted(This) =
         (getStatistics(This).pending + getStatistics(This).running = 0)
    /\ ~isAllCompleted(This) <=>
         \E i \in 1..Len(steps) : heap[steps[i]].status \in {PENDING, RUNNING}
    /\ steps = <<>> => isAllCompleted(This)

C15_Witness ==
    /\ lastCall.op = "clear"
    /\ steps = <<>>
    /\ Len(heap) = 2
    /\ heap[1].status = PENDING
    /\ heap[2].status = RUNNING
    /\ isAllCompleted(This)

(* C16: hasErrors() is true exactly when some current step has status      *)
(* error: false on a tracker with no steps, and false again once the only  *)
(* error step is moved to another status or the tracker is cleared.        *)
C16_ErrorsNow ==
    /\ hasErrors(This) = (getStatistics(This).error > 0)
    /\ hasErrors(This) <=> \E i \in 1..Len(steps) : heap[steps[i]].status = ERROR
    /\ steps = <<>> => ~hasErrors(This)

C16_ErrorsLeave ==
    /\ lastCall'.op = "clear" => ~hasErrors(This')
    /\ (/\ lastCall'.op \in UpdateOps \ {"error"}
        /\ hasErrors(This)
        /\ \A i \in 1..Len(steps) :
              heap[steps[i]].status = ERROR => heap[steps[i]].key = lastCall'.key)
          => ~hasErrors(This')

C16_HasErrors == [](C16_ErrorsNow) /\ [][C16_ErrorsLeave]_vars

C16_Witness ==
    /\ lastCall.op = "clear"
    /\ steps = <<>>
    /\ \E i \in 1..Len(heap) : heap[i].status = ERROR
    /\ ~hasErrors(This)

(* The step at position i is given status target by the call of op on its *)
(* key with argument arg                                                   *)
Moves(i, target, op, arg) ==
    LET after == Apply(Call(op, heap[steps[i]].key, arg), This).this
    IN  /\ after.steps = steps
        /\ after.heap[steps[i]].status = target

(* C18 as stated: for every pair of statuses (s, t), a step now in s can be *)
(* moved to t by the tracker's operations on that step.                    *)
C18_AnyToAny ==
    \A i \in 1..Len(steps), target \in StepStatus :
        target # heap[steps[i]].status =>
            \E op \in UpdateOps \cup {"add"}, arg \in Details \cup Labels :
                Moves(i, target, op, arg)

(* C18 as amended: for every status s and every status t among running,    *)
(* done, error and skipped, a step now in s can be moved to t by the       *)
(* tracker's operations on that step.                                      *)
C18_AnyToAnyButPending ==
    \A i \in 1..Len(steps), target \in StepStatus \ {PENDING} :
        target # heap[steps[i]].status =>
            \E op \in UpdateOps : StatusOf(op) = target /\ Moves(i, target, op, "")

C18_Witness ==
    /\ lastCall = Call("start", "git", "")
    /\ StepsOf(This) = <<Step("git", "git", RUNNING, "found")>>
    /\ nOps = 2

(* C19: whenever the refresh callback is invoked it sees the tracker with  *)
(* the whole effect of the call that triggered it, never a part of it; and *)
(* when the callback throws, the tracker after the call is the tracker the *)
(* callback saw.                                                           *)
C19_CallbackSeesWholeEffect ==
    lastCall'.op \in MutatingOps =>
        \A j \in 1..Len(cbSeen') :
            /\ cbSeen'[j].view =
                 Observed(Apply(lastCall',
                                [This EXCEPT !.refreshCallback = NoCallback]).this)
            /\ Throws(refreshCallback) => Observed(This') = cbSeen'[j].view

C19_NoHalfAppliedView == [][C19_CallbackSeesWholeEffect]_vars

C19_Witness ==
    /\ Throws(refreshCallback)
    /\ lastCall = Call("error", "git", "checking")
    /\ Len(cbSeen) = 1
    /\ cbSeen[1].view.steps = <<Step("git", "VS Code", ERROR, "checking")>>
    /\ outcome = "returned"

(* C20: a tracker holds at most one refresh callback: attachRefresh        *)
(* replaces the one held, changes no step and invokes no callback, and a   *)
(* later mutating call invokes the callback attached last, and no other.   *)
C20_AttachReplaces ==
    /\ lastCall'.op = "attachRefresh" =>
          /\ refreshCallback' = lastCall'.arg
          /\ cbSeen' = <<>>
          /\ Observed(This') = Observed(This)
          /\ outcome' = "returned"
    /\ lastCall'.op \in MutatingOps =>
          /\ refreshCallback' = refreshCallback
          /\ Len(cbSeen') <= 1
          /\ \A j \in 1..Len(cbSeen') : cbSeen'[j].cb = refreshCallback

C20_SingleCallback == [][C20_AttachReplaces]_vars

C20_Witness ==
    /\ lastCall.op = "add"
    /\ nOps = 3
    /\ Len(heap) = 1
    /\ title = InitialTitle
    /\ refreshCallback = "redraw"
    /\ Len(cbSeen) = 1
    /\ cbSeen[1].cb = "redraw"

(* C21: when the CLI is run with the init command and either both a        *)
(* project name and --here or neither of them, the program prints an error *)
(* message and the process exits with a status other than 0, without       *)
(* running any tool check.                                                 *)
C21_InvalidInitFails ==
    (cliProcess.pc = "exited" /\ InvalidInit(cliProcess.argv)) =>
        /\ cliProcess.stderr # <<>>
        /\ cliProcess.exitCode # "0"
        /\ probes = <<>>

(* C22: once the promise of a probe has resolved, it holds true exactly    *)
(* when the step of the tool is done and false exactly when it is in       *)
(* error, and the events of that probe that come afterwards leave the step *)
(* as it is: whichever of error and close the child emits, the step agrees *)
(* with the boolean returned.                                              *)
C22_StepAgrees ==
    \A i \in 1..Len(probes) :
        (/\ probes[i].promise # "pending"
         /\ \A j \in (i + 1)..Len(probes) : probes[j].tool # probes[i].tool) =>
            LET at == find(This, probes[i].tool)
            IN  /\ at # 0
                /\ probes[i].promise = "true" <=> StepsOf(This)[at].status = DONE
                /\ probes[i].promise = "false" <=> StepsOf(This)[at].status = ERROR

C22_LaterEventsKeepStep ==
    \A i \in 1..Len(probes) :
        (/\ probes[i].promise # "pending"
         /\ lastCall'.op \in LookupEvents
         /\ probes'[i] # probes[i]) =>
            /\ StepsOf(This') = StepsOf(This)
            /\ probes'[i].promise = probes[i].promise

C23_WaitsForProbe ==
    /\ Len(probes) <= Len(toolConfigs) + 1
    /\ StepsLeft >= 0
    /\ \A i \in 1..Len(probes) :
          InFlight(i) =>
              /\ i = Len(probes)
              /\ check.pc = "awaiting"
              /\ check.output = <<"banner">>
    /\ check.pc \in {"ready", "awaiting", "done"}
    /\ check.pc = "done" <=> Displayed
    /\ IF \E i \in 1..Len(probes) : InFlight(i)
       THEN \E i \in 1..Len(probes) : WhichSettles(i) \/ ChildCloses(i)
       ELSE check.pc # "done" => CheckStarts \/ CheckResumes

C23_EveryStepCounts == StepsLeft' < StepsLeft

C23_CheckTerminates ==
    [](C23_WaitsForProbe) /\ [][C23_EveryStepCounts]_vars

C23_Witness ==
    /\ Displayed
    /\ Len(probes) = 10
    /\ getStatistics(This).error = 10

(* C24: when the check command has finished all its probes, every step of  *)
(* its tracker is done or in error (isAllCompleted() holds and no step is  *)
(* pending, running or skipped), stats.done is the number of probes that   *)
(* returned true and stats.error the number that returned false, and the   *)
(* tracker has 9 steps if the probe of code succeeded and otherwise 10,    *)
(* the tenth being the step of code-insiders, created by the probe with    *)
(* its key as its label.                                                    *)
ProbesReturning(value) ==
    Cardinality({i \in 1..Len(probes) : probes[i].promise = value})

C24_FinalTracker ==
    check.pc = "done" =>
        LET stats == getStatistics(This)
            codeOk == \E i \in 1..Len(probes) :
                          probes[i].tool = "code" /\ probes[i].promise = "true"
            insiders == find(This, "code-insiders")
        IN  /\ \A i \in 1..Len(steps) : StepsOf(This)[i].status \in {DONE, ERROR}
            /\ isAllCompleted(This)
            /\ stats.pending = 0 /\ stats.running = 0 /\ stats.skipped = 0
            /\ stats.done = ProbesReturning("true")
            /\ stats.error = ProbesReturning("false")
            /\ stats.done + stats.error = Len(probes)
            /\ IF codeOk
               THEN stats.total = 9 /\ insiders = 0
               ELSE /\ stats.total = 10
                    /\ insiders = 10
                    /\ StepsOf(This)[insiders].label = "code-insiders"

C24_Witness ==
    /\ check.pc = "done"
    /\ getStatistics(This).total = 10
    /\ find(This, "code-insiders") = 10
    /\ StepsOf(This)[10].status = DONE
    /\ getStatistics(This).error >= 2
    /\ getStatistics(This).done >= 2

(* C25: no operation of the tracker sets an existing step back to pending. *)
(* A step object that is not pending and is still in the array after a     *)
(* call is not pending after it and has the key it had; unless the call is *)
(* clear(), such a step is still in the array; and the number of pending   *)
(* steps grows only by one, through add of a key that was absent.          *)
C25_StaysStarted ==
    \A i \in 1..Len(steps) :
        heap[steps[i]].status # PENDING =>
            LET kept == \E j \in 1..Len(steps') : steps'[j] = steps[i]
            IN  /\ kept => /\ heap'[steps[i]].status # PENDING
                           /\ heap'[steps[i]].key = heap[steps[i]].key
                /\ lastCall'.op # "clear" => kept

C25_PendingGrowsByAdd ==
    LET before == getStatistics(This).pending
        after == getStatistics(This').pending
    IN  after > before =>
            /\ lastCall'.op = "add"
            /\ find(This, lastCall'.key) = 0
            /\ after = before + 1

C25_NeverBackToPending ==
    [][C25_StaysStarted /\ C25_PendingGrowsByAdd]_vars

C25_Witness ==
    /\ lastCall.op = "add"
    /\ Len(steps) = 2
    /\ StepsOf(This)[find(This, lastCall.key)].status = DONE
    /\ StepsOf(This)[find(This, lastCall.key)].label # lastCall.arg
    /\ getStatistics(This).pending = 1

(* C26: the label of a step is fixed when the step is created. A call of   *)
(* add, start, complete, error or skip leaves every step object of the     *)
(* array in the array with the label it had, so a step created by an       *)
(* update of an unknown key keeps its key as its label through a later     *)
(* add(key, label). Whatever the call, a key that names a step before and  *)
(* after it names the same step object with the same label, so a key gets  *)
(* another label only by being removed in between, which clear() alone     *)
(* does; and every step carries the label given by the call that created   *)
(* it since the last clear().                                              *)
C26_CallsKeepLabels ==
    lastCall'.op \in UpdateOps \cup {"add"} =>
        /\ \A i \in 1..Len(steps) :
               /\ i <= Len(steps')
               /\ steps'[i] = steps[i]
               /\ heap'[steps[i]].label = heap[steps[i]].label
        /\ \A j \in (Len(steps) + 1)..Len(steps') :
               heap'[steps'[j]].label =
                   IF lastCall'.op = "add" THEN lastCall'.arg ELSE lastCall'.key

C26_RelabelNeedsClear ==
    \A i \in 1..Len(steps), j \in 1..Len(steps') :
        heap'[steps'[j]].key = heap[steps[i]].key =>
            /\ steps'[j] = steps[i]
            /\ heap'[steps'[j]].label = heap[steps[i]].label

C26_LabelOfCreation ==
    \A i \in 1..Len(steps) :
        \E c \in 1..Len(created) :
            /\ created[c].key = heap[steps[i]].key
            /\ created[c].label = heap[steps[i]].label

C26_LabelFixed ==
    [](C26_LabelOfCreation) /\ [][C26_CallsKeepLabels /\ C26_RelabelNeedsClear]_vars

C26_Witness ==
    /\ lastCall.op = "add"
    /\ find(This, lastCall.key) # 0
    /\ StepsOf(This)[find(This, lastCall.key)].label = lastCall.key
    /\ lastCall.arg # lastCall.key
    /\ StepsOf(This)[find(This, lastCall.key)].status = RUNNING

(* C27: with a refresh callback attached that does not call back into the  *)
(* tracker, each call of start, complete, error, skip, clear or setTitle   *)
(* and each add of a new key invokes the callback exactly once; add of a   *)
(* key already present and the read-only methods render, getAllSteps,      *)
(* getStatistics, isAllCompleted, hasErrors and getTitle do not invoke it, *)
(* and leave the tracker as it was.                                        *)
C27_Invocations ==
    refreshCallback # NoCallback =>
        /\ (\/ lastCall'.op \in UpdateOps \cup {"clear", "setTitle"}
            \/ lastCall'.op = "add" /\ find(This, lastCall'.key) = 0) =>
               /\ Len(cbSeen') = 1
               /\ cbSeen'[1].cb = refreshCallback
        /\ (\/ lastCall'.op \in ReadOps \cup {"getAllSteps"}
            \/ lastCall'.op = "add" /\ find(This, lastCall'.key) # 0) =>
               /\ cbSeen' = <<>>
               /\ This' = This

C27_OncePerMutation == [][C27_Invocations]_vars

C27_Witness ==
    /\ refreshCallback # NoCallback
    /\ lastCall.op = "render"
    /\ cbSeen = <<>>
    /\ Len(steps) = 2
    /\ nOps = 4

====
